---- MODULE Spec2Model ----
(***************************************************************************)
(* Customer segmentation pipeline: src/preprocessing.py, src/rfm.py and    *)
(* src/clustering.py.  Each script is one stage: its __main__ block loads  *)
(* an input file, runs the stage's functions in order inside one           *)
(* try/except and writes one output file as its last step.  A behaviour of *)
(* the model is one run of one stage on one input.                         *)
(*                                                                         *)
(* Numbers.  Timestamps are integers counted in ticks, TicksPerDay ticks   *)
(* to the day, so that the whole-day floor of Timedelta.days is visible.   *)
(* Quantiles are computed by linear interpolation as pandas does; a        *)
(* quantile with denominator d is kept multiplied by d so that it stays an *)
(* integer, and is compared against values multiplied by d as well.        *)
(* Arithmetic is exact: float rounding is outside the model.               *)
(***************************************************************************)
EXTENDS Integers, Sequences, FiniteSets, TLC

VARIABLES
  stage,    \* which script runs: "preprocessing", "rfm" or "clustering"
  pc,       \* the next step of its __main__ block, "done" or "failed"
  infile,   \* the file at the script's input path
  k,        \* the k handed to apply_kmeans
  df,       \* the frame the script loaded and works on
  rfm,      \* rfm.py: the RFM table; clustering.py: the scaled features
  summary,  \* clustering.py: the cluster summary
  err,      \* the exception caught by the except clause, None when none
  outfile   \* the file at the script's output path

vars == <<stage, pc, infile, k, df, rfm, summary, err, outfile>>

(***************************************************************************)
(* Bounds of the model.                                                    *)
(***************************************************************************)
\* customers in a table handed to score_rfm / apply_kmeans
MaxCust == 5
\* line-item rows in a freely drawn transaction file
MaxTx == 3
\* resolution of the clock: ticks per day
TicksPerDay == 2
\* largest k handed to apply_kmeans
MaxK == 5
\* rows in a raw file handed to the preprocessing stage
MaxRaw == 2

\* a path with no file behind it, and a file holding the rows written to it
NoFile == [exists |-> FALSE, content |-> <<>>]

File(c) == [exists |-> TRUE, content |-> c]
NaT == "NaT"
NaN == "NaN"
None == "None"

(***************************************************************************)
(* Helpers standing for pandas / Python primitives.                        *)
(***************************************************************************)
Range(s) == {s[i] : i \in DOMAIN s}

RECURSIVE SumSeq(_)
SumSeq(s) == IF s = <<>> THEN 0 ELSE Head(s) + SumSeq(Tail(s))

RECURSIVE Flatten(_)
Flatten(ss) == IF ss = <<>> THEN <<>> ELSE Head(ss) \o Flatten(Tail(ss))

MaxOf(S) == CHOOSE x \in S : \A y \in S : y <= x

MinOf(S) == CHOOSE x \in S : \A y \in S : x <= y

RECURSIVE SortedSeq(_)
SortedSeq(S) == IF S = {} THEN <<>> ELSE <<MinOf(S)>> \o SortedSeq(S \ {MinOf(S)})

Column(t, name) == [i \in 1..Len(t) |-> t[i][name]]

Ok(v) == [ok |-> TRUE, val |-> v]

Raise(e) == [ok |-> FALSE, err |-> e]

\* Series.quantile(num/den), linear interpolation, of the sorted non-empty
\* sequence s; the result is the quantile multiplied by den.
Quantile(s, num, den) ==
  LET pos == (Len(s) - 1) * num
      lo  == pos \div den
      fr  == pos % den
  IN  IF fr = 0 THEN den * s[lo + 1]
      ELSE den * s[lo + 1] + fr * (s[lo + 2] - s[lo + 1])

(***************************************************************************)
(* src/rfm.py                                                              *)
(***************************************************************************)
\* q of pd.qcut(..., q=5, ...)
QBins == 5

\* labels = range(1, 6)
labels == [i \in 1..QBins |-> i]

\* sorted(labels, reverse=True) with the labels in ascending order instead
RecencyLabelsAscending == labels

\* sorted(labels, reverse=True)
RecencyLabels == [i \in 1..QBins |-> labels[QBins + 1 - i]]

\* pd.qcut(x, q=5, labels=lab): the q+1 bin edges are the i/q quantiles of x
\* (all NaN when x is empty); duplicate edges raise ValueError
\* (duplicates='raise'); a value falls in bin number
\* searchsorted(edges, value, side='left'), the lowest value in bin 1.
qcut(x, lab) ==
  IF Len(x) = 0 THEN Raise("ValueError")
  ELSE
    LET s    == SortSeq(x, LAMBDA a, b : a < b)
        bins == [i \in 1..(QBins + 1) |-> Quantile(s, i - 1, QBins)]
        id(v) == IF QBins * v = bins[1] THEN 1
                 ELSE Cardinality({i \in DOMAIN bins : bins[i] < QBins * v})
    IN  IF \E i, j \in DOMAIN bins : i < j /\ bins[i] = bins[j]
        THEN Raise("ValueError")
        ELSE Ok([j \in DOMAIN x |-> lab[id(x[j])]])

\* Series.rank(method='first'): ascending ranks, ties in order of appearance
rank_first(x) ==
  [j \in DOMAIN x |->
     1 + Cardinality({i \in DOMAIN x : x[i] < x[j] \/ (x[i] = x[j] /\ i < j)})]

\* df['InvoiceDate'].max() + pd.Timedelta(days=1), without the added day
snapshot_date_no_offset(d) ==
  IF d = <<>> THEN NaT ELSE MaxOf(Range(Column(d, "InvoiceDate")))

\* df['InvoiceDate'].max() + pd.Timedelta(days=1); NaT for an empty frame
snapshot_date(d) ==
  IF d = <<>> THEN NaT ELSE MaxOf(Range(Column(d, "InvoiceDate"))) + TicksPerDay

\* Timedelta.days: whole days, rounded down
days(delta) == delta \div TicksPerDay

\* 'count' in place of 'nunique': one per line-item row
count_rows(rows) == Len(rows)

\* 'InvoiceNo': 'nunique'
nunique(rows) == Cardinality(Range(Column(rows, "InvoiceNo")))

\* 'max' in place of 'sum'
max_amount(rows) == MaxOf(Range(Column(rows, "TotalAmount")))

\* 'TotalAmount': 'sum'
sum_amount(rows) == SumSeq(Column(rows, "TotalAmount"))

\* df.groupby('CustomerID'): the groups in ascending key order; nothing is
\* grouped when the frame is empty
groupby_CustomerID(d) == SortedSeq(Range(Column(d, "CustomerID")))

calculate_rfm(d) ==
  LET snap == snapshot_date(d)
      keys == groupby_CustomerID(d)
  IN  [g \in 1..Len(keys) |->
        LET rows == SelectSeq(d, LAMBDA r : r.CustomerID = keys[g])
        IN  [CustomerID |-> keys[g],
             Recency    |-> days(snap - MaxOf(Range(Column(rows, "InvoiceDate")))),
             Frequency  |-> nunique(rows),
             Monetary   |-> sum_amount(rows)]]

score_rfm(t) ==
  LET R == qcut(Column(t, "Recency"), RecencyLabels)
      F == qcut(rank_first(Column(t, "Frequency")), labels)
      M == qcut(Column(t, "Monetary"), labels)
  IN  IF ~R.ok THEN R
      ELSE IF ~F.ok THEN F
      ELSE IF ~M.ok THEN M
      ELSE Ok([i \in 1..Len(t) |->
                [CustomerID    |-> t[i].CustomerID,
                 Recency       |-> t[i].Recency,
                 Frequency     |-> t[i].Frequency,
                 Monetary      |-> t[i].Monetary,
                 R_Score       |-> R.val[i],
                 F_Score       |-> F.val[i],
                 M_Score       |-> M.val[i],
                 RFM_Segment   |-> <<R.val[i], F.val[i], M.val[i]>>,
                 RFM_Score_Sum |-> R.val[i] + F.val[i] + M.val[i]]])

(***************************************************************************)
(* Inputs of the RFM stage: the file clean_transactions.csv, one row per   *)
(* line item, as the cleaner leaves it (CustomerID present, valid          *)
(* InvoiceDate, TotalAmount > 0).                                          *)
(***************************************************************************)
TxCustomers == {1, 2}
TxInvoices  == {1, 2}
TxTicks     == {0, 1, 2}
TxAmounts   == {1, 2}

TxCodes == 0..(Cardinality(TxCustomers \X TxInvoices \X TxTicks \X TxAmounts) - 1)

\* the line item with code c
TxRow(c) ==
  LET nA == Cardinality(TxAmounts)
      nT == Cardinality(TxTicks)
      nI == Cardinality(TxInvoices)
  IN  [CustomerID  |-> 1 + (c \div (nA * nT * nI)),
       InvoiceNo   |-> 1 + ((c \div (nA * nT)) % nI),
       InvoiceDate |-> (c \div nA) % nT,
       TotalAmount |-> 1 + (c % nA)]

\* Files of at most MaxTx line items over two customers, rows in code order
\* (the aggregates of calculate_rfm do not depend on the row order).
SmallFiles ==
  LET codes == UNION {[1..n -> TxCodes] : n \in 0..MaxTx}
      sorted == {s \in codes : \A i \in 1..(Len(s) - 1) : s[i] <= s[i + 1]}
  IN  {[i \in 1..Len(s) |-> TxRow(s[i])] : s \in sorted}

\* Purchase histories of one customer: <<InvoiceNo, InvoiceDate, TotalAmount>>
\* per line item; the empty history is a customer who is not in the file.
Histories ==
  { <<>>,
    << <<1, 0, 1>> >>,
    << <<1, 2, 1>>, <<1, 2, 2>> >>,
    << <<1, 1, 2>>, <<2, 5, 2>> >>,
    << <<1, 7, 2>> >>,
    << <<1, 8, 3>>, <<2, 9, 3>> >> }

HistoryRows(c, h) ==
  [i \in 1..Len(h) |->
     [CustomerID  |-> c,
      InvoiceNo   |-> (MaxCust + 1) * h[i][1] + c,
      InvoiceDate |-> h[i][2],
      TotalAmount |-> h[i][3]]]

\* Files of up to MaxCust customers, each with one of the histories.
CustomerFiles ==
  {Flatten([c \in 1..MaxCust |-> HistoryRows(c, f[c])]) :
     f \in [1..MaxCust -> Histories]}

RfmInputs == {NoFile} \cup {File(r) : r \in SmallFiles \cup CustomerFiles}

(***************************************************************************)
(* src/preprocessing.py.  A frame is [columns, rows]; a row maps each      *)
(* column name to its cell.  A CustomerID or InvoiceDate cell is <<>> when *)
(* missing (NaN, or a date that does not parse) and <<v>> otherwise.       *)
(* TotalAmount is kept in units of 1/QuantileDen so that the 5% and 95%    *)
(* quantiles stay integers.                                                *)
(***************************************************************************)
\* quantile(0.05) and quantile(0.95) are the 1/20 and 19/20 quantiles
QuantileDen == 20

Frame(cols, rows) == [columns |-> cols, rows |-> rows]

\* STANDARD_COLUMNS
STANDARD_COLUMNS(name) ==
  CASE name = "Invoice"     -> "InvoiceNo"
    [] name = "InvoiceDa"   -> "InvoiceDate"
    [] name = "Price"       -> "UnitPrice"
    [] name = "Customer ID" -> "CustomerID"
    [] name = "Customer"    -> "CustomerID"
    [] OTHER                -> name

\* str.strip() on the header names that occur in the inputs
strip(name) == IF name = " Customer ID " THEN "Customer ID" ELSE name

\* apply a renaming f (a function on the column names) to a frame
RenameColumns(d, f) ==
  LET cols == {f[c] : c \in d.columns}
  IN  Frame(cols, [i \in 1..Len(d.rows) |->
                     [n \in cols |-> d.rows[i][CHOOSE c \in d.columns : f[c] = n]]])

\* load_data: FileNotFoundError when the file is absent, else the frame with
\* stripped column names
load_data(file) ==
  IF ~file.exists THEN Raise("FileNotFoundError")
  ELSE Ok(RenameColumns(file.content, [c \in file.content.columns |-> strip(c)]))

required == {"InvoiceNo", "Quantity", "UnitPrice", "CustomerID"}

\* initial_processing: rename, check the required columns, add TotalAmount
initial_processing(d) ==
  LET r == RenameColumns(d, [c \in d.columns |-> STANDARD_COLUMNS(c)])
      missing == {c \in required : c \notin r.columns}
      cols == r.columns \cup {"TotalAmount"}
  IN  IF missing # {} THEN Raise("KeyError")
      ELSE Ok(Frame(cols, [i \in 1..Len(r.rows) |->
             [n \in cols |->
                IF n = "TotalAmount"
                THEN QuantileDen * r.rows[i]["Quantity"] * r.rows[i]["UnitPrice"]
                ELSE r.rows[i][n]]]))

\* DataFrame.drop_duplicates(): the first of each set of equal rows is kept
drop_duplicates(rows) ==
  LET keep == {i \in 1..Len(rows) : \A j \in 1..(i - 1) : rows[j] # rows[i]}
      idx  == SortedSeq(keep)
  IN  [n \in 1..Len(idx) |-> rows[idx[n]]]

\* clean_data: df['InvoiceDate'] raises KeyError when the column is absent
clean_data(d) ==
  LET r1 == SelectSeq(d.rows, LAMBDA r : r["CustomerID"] # <<>>)
      r2 == drop_duplicates(r1)
      r3 == SelectSeq(r2, LAMBDA r : r["InvoiceDate"] # <<>>)
      r4 == SelectSeq(r3, LAMBDA r : r["Quantity"] > 0 /\ r["TotalAmount"] > 0)
  IN  IF "InvoiceDate" \notin d.columns THEN Raise("KeyError")
      ELSE Ok(Frame(d.columns, r4))

\* Series.clip(lower, upper)
clip(v, lower, upper) == IF v < lower THEN lower ELSE IF v > upper THEN upper ELSE v

\* handle_outliers: cap col between its 5% and 95% quantiles; the quantiles
\* of an empty column are NaN and clip leaves the (empty) column alone
handle_outliers(d, col) ==
  IF col \notin d.columns \/ d.rows = <<>> THEN d
  ELSE
    LET s  == SortSeq(Column(d.rows, col), LAMBDA a, b : a < b)
        Q1 == Quantile(s, 1, QuantileDen) \div QuantileDen
        Q3 == Quantile(s, QuantileDen - 1, QuantileDen) \div QuantileDen
    IN  Frame(d.columns, [i \in 1..Len(d.rows) |->
              [n \in d.columns |->
                 IF n = col THEN clip(d.rows[i][n], Q1, Q3) ELSE d.rows[i][n]]])

(***************************************************************************)
(* Inputs of the preprocessing stage: the raw file.                        *)
(***************************************************************************)
\* the header rows of the raw files: the standard names, the variant names
\* (one of them padded), a file without a customer column and one without
\* a date column
RawHeaders ==
  { <<"InvoiceNo", "Quantity", "UnitPrice", "CustomerID", "InvoiceDate">>,
    <<"Invoice", "Quantity", "Price", " Customer ID ", "InvoiceDa">>,
    <<"Invoice", "Quantity", "Price", "Country", "InvoiceDate">>,
    <<"InvoiceNo", "Quantity", "UnitPrice", "CustomerID", "Country">> }

\* the cells of one raw row, in header order
RawCells ==
  {<<1>>} \X {0 - 1, 1, 3} \X {2} \X {<<>>, <<1>>} \X {<<>>, <<0>>}

RawFiles ==
  {Frame(Range(h), [i \in 1..Len(cells) |->
                      [n \in Range(h) |->
                         cells[i][CHOOSE j \in 1..Len(h) : h[j] = n]]]) :
     h \in RawHeaders, cells \in UNION {[1..n -> RawCells] : n \in 0..MaxRaw}}

PreInputs == {NoFile} \cup {File(f) : f \in RawFiles}

(***************************************************************************)
(* src/clustering.py                                                       *)
(***************************************************************************)
\* the number of entries of persona_mapping
NumPersonas == 4

\* persona_mapping
persona_mapping ==
  [c \in 0..(NumPersonas - 1) |->
     CASE c = 0 -> "Lost / Hibernating"
       [] c = 1 -> "Champions"
       [] c = 2 -> "Loyal / Promising"
       [] OTHER -> "At-Risk"]

features == <<"Recency", "Frequency", "Monetary">>

\* the position of v among the distinct values of S, from 1
DenseRank(v, S) == Cardinality({w \in S : w <= v})

\* preprocess_for_kmeans: log1p and StandardScaler are increasing maps of
\* each column, so a scaled cell is represented by the position of its
\* value among the column's distinct values; StandardScaler.fit raises
\* ValueError on a frame without rows
preprocess_for_kmeans(d) ==
  IF d = <<>> THEN Raise("ValueError")
  ELSE Ok([i \in 1..Len(d) |->
            [j \in 1..Len(features) |->
               DenseRank(d[i][features[j]], Range(Column(d, features[j])))]])

\* KMeans.fit without the n_samples check
fit_accepts_any(n, kk) == n >= 1

\* KMeans.fit: ValueError unless n_samples >= n_clusters
fit_accepts(n, kk) == n >= kk

\* kmeans.labels_ after fit: one of k ids per sample, equal samples in the
\* same cluster, and as many clusters in use as k and the number of distinct
\* samples allow.  Which of these labelings the seeded fit returns is not
\* modelled; every one of them is a possible outcome.
KMeansLabels(X, kk) ==
  LET d == Cardinality(Range(X))
      used == IF kk < d THEN kk ELSE d
  IN  {lab \in [1..Len(X) -> 0..(kk - 1)] :
         /\ \A i, j \in 1..Len(X) : X[i] = X[j] => lab[i] = lab[j]
         /\ Cardinality(Range(lab)) = used}

\* apply_kmeans: df['Cluster'] = kmeans.labels_
apply_kmeans(d, lab) ==
  [i \in 1..Len(d) |->
     [CustomerID |-> d[i].CustomerID, Recency |-> d[i].Recency,
      Frequency |-> d[i].Frequency, Monetary |-> d[i].Monetary,
      Cluster |-> lab[i]]]

\* Series.map(dict): NaN for a key the dict does not have
map_persona(c) == IF c \in DOMAIN persona_mapping THEN persona_mapping[c] ELSE NaN

\* name_clusters
name_clusters(d) ==
  [i \in 1..Len(d) |->
     [CustomerID |-> d[i].CustomerID, Recency |-> d[i].Recency,
      Frequency |-> d[i].Frequency, Monetary |-> d[i].Monetary,
      Cluster |-> d[i].Cluster,
      Customer_Persona |-> map_persona(d[i].Cluster)]]

\* summarize_clusters: groupby(['Cluster', 'Customer_Persona']) leaves out
\* the rows with a NaN key (dropna=True); one row per group in key order.
\* A mean is kept as its numerator, the sum; its denominator is count.
summarize_clusters(d) ==
  LET kept == SelectSeq(d, LAMBDA r : r.Customer_Persona # NaN)
      keys == SortedSeq(Range(Column(kept, "Cluster")))
  IN  [g \in 1..Len(keys) |->
        LET rows == SelectSeq(kept, LAMBDA r : r.Cluster = keys[g])
        IN  [Cluster          |-> keys[g],
             Customer_Persona |-> rows[1].Customer_Persona,
             Recency_sum      |-> SumSeq(Column(rows, "Recency")),
             Frequency_sum    |-> SumSeq(Column(rows, "Frequency")),
             Monetary_sum     |-> SumSeq(Column(rows, "Monetary")),
             count            |-> Len(rows)]]

(***************************************************************************)
(* Inputs of the clustering stage: the file rfm_summary.csv, one row per   *)
(* customer (the score columns are not read by this stage and are left     *)
(* out), and the k handed to apply_kmeans.                                 *)
(***************************************************************************)
\* <<Recency, Frequency, Monetary>> of the customers the tables are made of
ClusterRows ==
  << <<1, 1, 2>>, <<1, 2, 5>>, <<2, 1, 2>>, <<4, 3, 9>>, <<7, 1, 1>> >>

\* Tables of at most MaxCust customers, CustomerID = row number
ClusterTables ==
  LET idx == UNION {[1..n -> 1..Len(ClusterRows)] : n \in 0..MaxCust}
      sorted == {s \in idx : \A i \in 1..(Len(s) - 1) : s[i] <= s[i + 1]}
  IN  {[i \in 1..Len(s) |->
          [CustomerID |-> i,
           Recency    |-> ClusterRows[s[i]][1],
           Frequency  |-> ClusterRows[s[i]][2],
           Monetary   |-> ClusterRows[s[i]][3]]] : s \in sorted}

ClusterInputs == {NoFile} \cup {File(t) : t \in ClusterTables}

(***************************************************************************)
(* The stages.  pc is the next step of the stage's __main__ block.         *)
(***************************************************************************)
\* a finally-like handler that still goes on to the save step
ExceptSave == "save"

\* except Exception as e: print(...) -- the block ends, nothing is saved
Except == "failed"

Fail(e) ==
  /\ pc' = Except
  /\ err' = e

\* rfm.py __main__, step 1: df = load_clean_data(INPUT_PATH)
RfmLoad ==
  /\ stage = "rfm" /\ pc = "load" /\ err = None
  /\ IF ~infile.exists
     THEN Fail("FileNotFoundError") /\ UNCHANGED df
     ELSE df' = infile.content /\ pc' = "calculate" /\ UNCHANGED err
  /\ UNCHANGED <<stage, infile, k, rfm, summary, outfile>>

\* rfm.py __main__, step 2: rfm_df = calculate_rfm(df)
RfmCalculate ==
  /\ stage = "rfm" /\ pc = "calculate" /\ err = None
  /\ rfm' = calculate_rfm(df)
  /\ pc' = "score"
  /\ UNCHANGED <<stage, infile, k, df, summary, err, outfile>>

\* rfm.py __main__, step 3: rfm_scored = score_rfm(rfm_df)
RfmScore ==
  /\ stage = "rfm" /\ pc = "score" /\ err = None
  /\ LET r == score_rfm(rfm)
     IN  IF r.ok
         THEN rfm' = r.val /\ pc' = "save" /\ UNCHANGED err
         ELSE Fail(r.err) /\ UNCHANGED rfm
  /\ UNCHANGED <<stage, infile, k, df, summary, outfile>>

\* rfm.py __main__, step 4: rfm_scored.to_csv(OUTPUT_PATH, index=False)
RfmSave ==
  /\ stage = "rfm" /\ pc = "save"
  /\ outfile' = File(rfm)
  /\ pc' = "done"
  /\ UNCHANGED <<stage, infile, k, df, rfm, summary, err>>

\* preprocessing.py __main__, step 1: df = load_data(RAW_DATA_PATH)
PreLoad ==
  /\ stage = "preprocessing" /\ pc = "load" /\ err = None
  /\ LET r == load_data(infile)
     IN  IF r.ok
         THEN df' = r.val /\ pc' = "process" /\ UNCHANGED err
         ELSE Fail(r.err) /\ UNCHANGED df
  /\ UNCHANGED <<stage, infile, k, rfm, summary, outfile>>

\* preprocessing.py __main__, step 2: df = initial_processing(df)
PreProcess ==
  /\ stage = "preprocessing" /\ pc = "process" /\ err = None
  /\ LET r == initial_processing(df)
     IN  IF r.ok
         THEN df' = r.val /\ pc' = "clean" /\ UNCHANGED err
         ELSE Fail(r.err) /\ UNCHANGED df
  /\ UNCHANGED <<stage, infile, k, rfm, summary, outfile>>

\* preprocessing.py __main__, step 3: df = clean_data(df)
PreClean ==
  /\ stage = "preprocessing" /\ pc = "clean" /\ err = None
  /\ LET r == clean_data(df)
     IN  IF r.ok
         THEN df' = r.val /\ pc' = "outliers" /\ UNCHANGED err
         ELSE Fail(r.err) /\ UNCHANGED df
  /\ UNCHANGED <<stage, infile, k, rfm, summary, outfile>>

\* preprocessing.py __main__, step 4: df = handle_outliers(df, col='TotalAmount')
PreOutliers ==
  /\ stage = "preprocessing" /\ pc = "outliers" /\ err = None
  /\ df' = handle_outliers(df, "TotalAmount")
  /\ pc' = "save"
  /\ UNCHANGED <<stage, infile, k, rfm, summary, err, outfile>>

\* preprocessing.py __main__, step 5: os.makedirs(...); df.to_csv(...)
PreSave ==
  /\ stage = "preprocessing" /\ pc = "save"
  /\ outfile' = File(df)
  /\ pc' = "done"
  /\ UNCHANGED <<stage, infile, k, df, rfm, summary, err>>

\* clustering.py __main__, step 1: df = load_rfm_data(INPUT_PATH); read_csv
\* raises FileNotFoundError when the file is absent
ClusterLoad ==
  /\ stage = "clustering" /\ pc = "load" /\ err = None
  /\ IF ~infile.exists
     THEN Fail("FileNotFoundError") /\ UNCHANGED df
     ELSE df' = infile.content /\ pc' = "preprocess" /\ UNCHANGED err
  /\ UNCHANGED <<stage, infile, k, rfm, summary, outfile>>

\* clustering.py __main__, step 2: scaled_data, _ = preprocess_for_kmeans(df)
ClusterPreprocess ==
  /\ stage = "clustering" /\ pc = "preprocess" /\ err = None
  /\ LET r == preprocess_for_kmeans(df)
     IN  IF r.ok
         THEN rfm' = r.val /\ pc' = "kmeans" /\ UNCHANGED err
         ELSE Fail(r.err) /\ UNCHANGED rfm
  /\ UNCHANGED <<stage, infile, k, df, summary, outfile>>

\* clustering.py __main__, step 3: final_df = apply_kmeans(df, scaled_data, k)
ClusterKMeans ==
  /\ stage = "clustering" /\ pc = "kmeans" /\ err = None
  /\ IF fit_accepts(Len(rfm), k)
     THEN /\ \E lab \in KMeansLabels(rfm, k) : df' = apply_kmeans(df, lab)
          /\ pc' = "name"
          /\ UNCHANGED err
     ELSE Fail("ValueError") /\ UNCHANGED df
  /\ UNCHANGED <<stage, infile, k, rfm, summary, outfile>>

\* clustering.py __main__, step 4: final_df = name_clusters(final_df)
ClusterName ==
  /\ stage = "clustering" /\ pc = "name" /\ err = None
  /\ df' = name_clusters(df)
  /\ pc' = "summarize"
  /\ UNCHANGED <<stage, infile, k, rfm, summary, err, outfile>>

\* clustering.py __main__, step 5: summarize_clusters(final_df)
ClusterSummarize ==
  /\ stage = "clustering" /\ pc = "summarize" /\ err = None
  /\ summary' = summarize_clusters(df)
  /\ pc' = "save"
  /\ UNCHANGED <<stage, infile, k, df, rfm, err, outfile>>

\* clustering.py __main__, step 6: final_df.to_csv(OUTPUT_PATH, index=False)
ClusterSave ==
  /\ stage = "clustering" /\ pc = "save"
  /\ outfile' = File(df)
  /\ pc' = "done"
  /\ UNCHANGED <<stage, infile, k, df, rfm, summary, err>>

Init ==
  /\ \/ stage = "preprocessing" /\ infile \in PreInputs /\ k = 0
     \/ stage = "rfm" /\ infile \in RfmInputs /\ k = 0
     \/ stage = "clustering" /\ infile \in ClusterInputs /\ k \in 1..MaxK
  /\ pc = "load"
  /\ df = <<>>
  /\ rfm = <<>>
  /\ summary = <<>>
  /\ err = None
  /\ outfile = NoFile

Next ==
  \/ PreLoad
  \/ PreProcess
  \/ PreClean
  \/ PreOutliers
  \/ PreSave
  \/ RfmLoad
  \/ RfmCalculate
  \/ RfmScore
  \/ RfmSave
  \/ ClusterLoad
  \/ ClusterPreprocess
  \/ ClusterKMeans
  \/ ClusterName
  \/ ClusterSummarize
  \/ ClusterSave

Spec == Init /\ [][Next]_vars

(***************************************************************************)
(* Properties.  After RfmCalculate (pc = "score") rfm is the table that    *)
(* calculate_rfm returned for df; after RfmScore succeeded (pc = "save" or *)
(* "done") rfm is the scored table.                                        *)
(***************************************************************************)
Calculated == stage = "rfm" /\ pc = "score"

Scored == stage = "rfm" /\ pc \in {"save", "done"}

\* the line items of customer c in the loaded frame
RowsOf(c) == SelectSeq(df, LAMBDA r : r.CustomerID = c)

\* the latest InvoiceDate among the rows
LastDate(rows) == MaxOf({rows[i].InvoiceDate : i \in DOMAIN rows})

\* C1: every customer's Frequency is the number of distinct InvoiceNo values
\* among that customer's line items, however many rows they are spread over.
C1_FrequencyIsDistinctInvoices ==
  Calculated =>
    \A i \in DOMAIN rfm :
      rfm[i].Frequency =
        Cardinality({df[j].InvoiceNo :
                       j \in {n \in DOMAIN df : df[n].CustomerID = rfm[i].CustomerID}})

\* C1 witness: a customer with two distinct invoices spread over three rows
C1_Witness ==
  /\ Calculated
  /\ \E i \in DOMAIN rfm :
       rfm[i].Frequency = 2 /\ Len(RowsOf(rfm[i].CustomerID)) = 3

\* C2: one snapshot, the latest InvoiceDate of the whole input plus one day;
\* Recency is the whole number of days (rounded down) from the customer's
\* latest InvoiceDate to the snapshot; the customers holding the latest
\* transaction have Recency 1 and nobody has Recency 0.
C2_SnapshotRecency ==
  (Calculated /\ df # <<>>) =>
    LET snapshot == LastDate(df) + TicksPerDay
    IN  \A i \in DOMAIN rfm :
          LET last == LastDate(RowsOf(rfm[i].CustomerID))
          IN  /\ rfm[i].Recency * TicksPerDay <= snapshot - last
              /\ snapshot - last < (rfm[i].Recency + 1) * TicksPerDay
              /\ last = LastDate(df) => rfm[i].Recency = 1
              /\ rfm[i].Recency # 0

\* C2 witness: one customer holds the latest transaction, another one's last
\* purchase is a whole number of days and a part of a day before the snapshot
C2_Witness ==
  /\ Calculated
  /\ \E i, j \in DOMAIN rfm :
       /\ rfm[i].Recency = 1
       /\ LastDate(RowsOf(rfm[i].CustomerID)) = LastDate(df)
       /\ rfm[j].Recency >= 2
       /\ (LastDate(df) - LastDate(RowsOf(rfm[j].CustomerID))) % TicksPerDay # 0

\* the number of customers of the scored table with score v in column col
BinSize(col, v) == Cardinality({i \in DOMAIN rfm : rfm[i][col] = v})

Balanced(col) ==
  \A a, b \in 1..QBins : BinSize(col, a) - BinSize(col, b) <= 1

\* C3: on a population of at least 5 customers score_rfm succeeds and each
\* of R_Score, F_Score and M_Score splits the customers into 5 bins whose
\* sizes differ by at most 1, ties included.
C3_FiveBalancedBins ==
  (stage = "rfm" /\ Len(rfm) >= QBins /\ pc \notin {"load", "calculate", "score"}) =>
    /\ pc \in {"save", "done"}
    /\ Balanced("R_Score")
    /\ Balanced("F_Score")
    /\ Balanced("M_Score")

\* C4: within a scored population a customer with lower or equal Recency
\* never has the lower R_Score; the lowest Recency scores 5 and the highest
\* scores 1.
C4_RecencyScoreInverted ==
  Scored =>
    /\ \A a, b \in DOMAIN rfm :
         rfm[a].Recency <= rfm[b].Recency => rfm[a].R_Score >= rfm[b].R_Score
    /\ \A a \in DOMAIN rfm :
         /\ (\A b \in DOMAIN rfm : rfm[a].Recency <= rfm[b].Recency)
              => rfm[a].R_Score = QBins
         /\ (\A b \in DOMAIN rfm : rfm[a].Recency >= rfm[b].Recency)
              => rfm[a].R_Score = 1

\* C4 witness: a scored population of at least 5 customers with two of them
\* tied on Recency and five different R_Scores
C4_Witness ==
  /\ Scored
  /\ Len(rfm) >= QBins
  /\ \E a, b \in DOMAIN rfm : a # b /\ rfm[a].Recency = rfm[b].Recency
  /\ \E a, b \in DOMAIN rfm :
       rfm[a].Recency < rfm[b].Recency /\ rfm[a].R_Score > rfm[b].R_Score

\* C5: score_rfm fails, and returns no scored table, whenever the RFM table
\* has fewer than 5 customers.
C5_FailsBelowFiveCustomers ==
  Scored => Len(rfm) >= QBins

\* C6: calculate_rfm fails on an empty transaction set: no RFM table is
\* returned and the run does not go on to the scoring step.
C6_FailsOnEmptyInput ==
  (stage = "rfm" /\ infile.exists /\ infile.content = <<>>) => pc # "score"

\* C7: apply_kmeans fails whenever k exceeds the number of customers of the
\* table; then no row gets a Cluster id and nothing is summarized or saved.
C7_FailsWhenKExceedsCustomers ==
  (stage = "clustering" /\ infile.exists /\ k > Len(infile.content)) =>
    /\ pc \in {"load", "preprocess", "kmeans", "failed"}
    /\ \A i \in DOMAIN df : "Cluster" \notin DOMAIN df[i]
    /\ summary = <<>>
    /\ ~outfile.exists

\* C7 witness: apply_kmeans raised on a table with fewer customers than k
C7_Witness ==
  /\ stage = "clustering" /\ pc = "failed" /\ err = "ValueError"
  /\ Len(df) >= 1 /\ k > Len(df)

\* C8: in every stage the output file is written only after every earlier
\* step succeeded; once a step failed the run is aborted with the error
\* reported and the output file is not written.
C8_OutputOnlyAfterSuccess ==
  /\ err # None => (pc = "failed" /\ ~outfile.exists)
  /\ pc = "failed" => (err # None /\ ~outfile.exists)
  /\ outfile.exists => (pc = "done" /\ err = None)

\* C8 witness: a stage aborted after its load step had succeeded, output
\* file absent
C8_Witness ==
  /\ stage = "preprocessing" /\ pc = "failed" /\ err = "KeyError"
  /\ df.rows # <<>>
  /\ ~outfile.exists

\* C9: for a non-empty input calculate_rfm returns exactly one row per
\* distinct CustomerID, with Recency >= 0, Frequency >= 1, Monetary > 0 and
\* Monetary the sum of the customer's TotalAmount values.
C9_OneRowPerCustomer ==
  (Calculated /\ df # <<>>) =>
    /\ {rfm[i].CustomerID : i \in DOMAIN rfm} = {df[j].CustomerID : j \in DOMAIN df}
    /\ \A a, b \in DOMAIN rfm : rfm[a].CustomerID = rfm[b].CustomerID => a = b
    /\ \A i \in DOMAIN rfm :
         /\ rfm[i].Recency >= 0
         /\ rfm[i].Frequency >= 1
         /\ rfm[i].Monetary > 0
         /\ rfm[i].Monetary = SumSeq([n \in DOMAIN RowsOf(rfm[i].CustomerID) |->
                                        RowsOf(rfm[i].CustomerID)[n].TotalAmount])

\* C9 witness: two customers, one of them with several line items
C9_Witness ==
  /\ Calculated
  /\ Len(rfm) >= 2
  /\ \E i \in DOMAIN rfm :
       Len(RowsOf(rfm[i].CustomerID)) >= 2 /\ rfm[i].Monetary >= 3

\* C10: for every k that apply_kmeans accepts, once the table is labeled and
\* summarized every customer has a persona of the lookup and is counted in
\* exactly one summary row: the counts add up to the number of customers and
\* every cluster id in use has a summary row.
C10_EveryCustomerSummarized ==
  (stage = "clustering" /\ pc \in {"save", "done"}) =>
    /\ \A i \in DOMAIN df : df[i].Customer_Persona \in Range(persona_mapping)
    /\ SumSeq(Column(summary, "count")) = Len(df)
    /\ {df[i].Cluster : i \in DOMAIN df} = {summary[g].Cluster : g \in DOMAIN summary}

====
